---------------------------- MODULE Spec2Model ----------------------------
(***************************************************************************)
(* A model of backup.py: the rate-limit-aware fetcher (get), the paginator *)
(* (get_paginated), and the resumable archival run (backup) writing into   *)
(* an SQLite database through explicit transactions.                       *)
(*                                                                         *)
(* Two specifications are given.  SpecPag drives one walk of the paginator *)
(* against a server that interleaves rate-limited and failing responses.   *)
(* Spec drives a sequence of backup runs, each of which may be interrupted *)
(* at any step, against a fixed remote chosen from Remotes.                *)
(***************************************************************************)
EXTENDS Integers, Sequences, FiniteSets, TLC

(***************************************************************************)
(* Bounds of the model.                                                    *)
(***************************************************************************)
MaxPages == 3
MaxAttempts == 3
MaxRuns == 3
MaxFiles == 2

(***************************************************************************)
(* URLs.  A URL is the tuple urllib.parse.urlparse returns, with the path  *)
(* kept as the sequence of its "/"-separated components.                   *)
(***************************************************************************)
Url(scheme, netloc, path, query, fragment) ==
    [scheme |-> scheme, netloc |-> netloc, path |-> path,
     query |-> query, fragment |-> fragment]

NoUrl == Url("", "", <<>>, "", "")

ApiHost == "api.github.com"
EvilHost == "evil.example"

BASE_URL == Url("https", ApiHost, <<"">>, "", "")

url_origin(url) == <<url.scheme, url.netloc>>

\* check_url_origin asserts; TRUE means the assertion passes.
check_url_origin(base, url) == url_origin(base) = url_origin(url)

(***************************************************************************)
(* HTTP responses.  A header is absent, an integer, or text that does not  *)
(* parse as an integer.  Times are seconds on one clock.                   *)
(***************************************************************************)
Hdr(kind, val) == [kind |-> kind, val |-> val]
Absent == Hdr("absent", 0)
Text == Hdr("text", 0)
IntHdr(n) == Hdr("int", n)

Now == 10

Response(status, remaining, reset, date, next, page) ==
    [status |-> status, remaining |-> remaining, reset |-> reset,
     date |-> date, next |-> next, page |-> page]

NoResponse == Response(0, Absent, Absent, Absent, NoUrl, 0)

\* rate_limit_reset: exc is the exception it raises ("none" if it returns),
\* limited tells a datetime from None, reset is the datetime.
RLResult(exc, limited, reset) == [exc |-> exc, limited |-> limited, reset |-> reset]

rate_limit_reset(r) ==
    IF r.status # 403 THEN RLResult("none", FALSE, 0)
    ELSE IF r.remaining.kind = "absent" THEN RLResult("none", FALSE, 0)
    ELSE IF r.remaining.kind = "text" THEN RLResult("none", FALSE, 0)
    ELSE IF r.remaining.val > 0 THEN RLResult("none", FALSE, 0)
    ELSE IF r.reset.kind = "absent" THEN RLResult("KeyError", FALSE, 0)
    ELSE IF r.reset.kind = "text" THEN RLResult("ValueError", FALSE, 0)
    ELSE RLResult("none", TRUE, r.reset.val)

\* response_datetime: strptime of the date header.
response_datetime(r) ==
    IF r.date.kind = "absent" THEN [exc |-> "TypeError", dt |-> 0]
    ELSE IF r.date.kind = "text" THEN [exc |-> "ValueError", dt |-> 0]
    ELSE [exc |-> "none", dt |-> r.date.val]

\* requests' raise_for_status: TRUE when it raises HTTPError.
raise_for_status(r) == r.status >= 400 /\ r.status < 600

\* time.sleep: TRUE when it raises ValueError (negative length).
sleep_raises(seconds) == seconds < 0

\* One iteration of the loop of get, after sess.get returned r.
Outcome(kind, exc, status, sleep) ==
    [kind |-> kind, exc |-> exc, status |-> status, sleep |-> sleep]

get_iteration(r) ==
    LET rl == rate_limit_reset(r)
        dt == response_datetime(r)
        reset_seconds == rl.reset - dt.dt
    IN  IF rl.exc # "none" THEN Outcome("raise", rl.exc, 0, 0)
        ELSE IF rl.limited THEN
            IF dt.exc # "none" THEN Outcome("raise", dt.exc, 0, 0)
            ELSE IF sleep_raises(reset_seconds) THEN Outcome("raise", "ValueError", 0, 0)
            ELSE Outcome("retry", "none", 0, reset_seconds)
        ELSE IF raise_for_status(r) THEN Outcome("raise", "HTTPError", r.status, 0)
        ELSE Outcome("return", "none", r.status, 0)

\* sess.get raising (connection error, timeout): get re-raises.
TransportFailure == Outcome("raise", "ConnectionError", 0, 0)

(***************************************************************************)
(* The responses a server may give in place of the resource: rate-limit    *)
(* signals whose reset lies after, at or before the response's date, other *)
(* 403s, and plain errors.                                                 *)
(***************************************************************************)
RateLimitSignals ==
    { Response(403, IntHdr(0), IntHdr(t), IntHdr(Now), NoUrl, 0) : t \in {Now - 1, Now, Now + 1} }

OtherFailures ==
    { Response(403, rem, rst, IntHdr(Now), NoUrl, 0) :
        rem \in {Absent, Text, IntHdr(1)}, rst \in {Absent, IntHdr(Now + 1)} }
    \cup { Response(403, IntHdr(0), Absent, IntHdr(Now), NoUrl, 0) }
    \cup { Response(s, Absent, Absent, IntHdr(Now), NoUrl, 0) : s \in {404, 500} }

IsRateLimitSignal(r) ==
    r.status = 403 /\ r.remaining = IntHdr(0) /\ r.reset.kind = "int"

IsSuccess(r) == r.status >= 200 /\ r.status < 300

(***************************************************************************)
(* get_paginated's handling of the caller's parameters.  Parameters are a  *)
(* set of <<key, value>> pairs.                                            *)
(***************************************************************************)
paginated_params(params) ==
    { kv \in params : kv[1] # "page" /\ kv[1] # "per_page" } \cup { <<"per_page", "100">> }

\* The part of get_paginated after the yield: break, assertion failure or
\* the URL of the next request.
NextStep(kind, url) == [kind |-> kind, url |-> url]

\* Mutant: the "next" link is followed without the origin check.
after_yield_unchecked(url, r) ==
    IF r.next = NoUrl THEN NextStep("break", NoUrl) ELSE NextStep("next", r.next)

\* Mutant: the walk ends after its first response.
after_yield_stops(url, r) == NextStep("break", NoUrl)

after_yield(url, r) ==
    IF r.next = NoUrl THEN NextStep("break", NoUrl)
    ELSE IF ~check_url_origin(url, r.next) THEN NextStep("raise", r.next)
    ELSE NextStep("next", r.next)

(***************************************************************************)
(* SpecPag: one walk of get_paginated over a chain of gLen pages.  Page k  *)
(* lives at PageUrl(k) and links to page k+1; the last page has no "next"  *)
(* link, or (gEvil) one to another host.                                   *)
(***************************************************************************)
VARIABLES gLen, gEvil, gParams, gpc, gUrl, gReq, gSent, gResp, gAttempts,
          gSleeps, gYield, gErr, gOnlyRL

gvars == <<gLen, gEvil, gParams, gpc, gUrl, gReq, gSent, gResp, gAttempts,
           gSleeps, gYield, gErr, gOnlyRL>>

\* The variables of a backup run (see Spec below).
VARIABLES remote, db, work, inTx, pc, run, coll, lurl, resp, idx, rurl, rresp,
          body, rowid, links, lidx, seen,
          startDb, calls, inserts, failure, badAt

bvars == <<remote, db, work, inTx, pc, run, coll, lurl, resp, idx, rurl, rresp,
           body, rowid, links, lidx, seen,
           startDb, calls, inserts, failure, badAt>>

vars == <<gvars, bvars>>

\* The path of a collection's listing endpoint (lines 226-228, 265-267,
\* 303-305), for owner "o" and repository "r".
ListPath(c) ==
    CASE c = "issues" -> <<"", "repos", "o", "r", "issues">>
      [] c = "comments" -> <<"", "repos", "o", "r", "issues", "comments">>
      [] OTHER -> <<"", "repos", "o", "r", "labels">>

PageQuery(k) == IF k = 1 THEN "" ELSE "page=" \o ToString(k)

ListUrl(c, k) == Url("https", ApiHost, ListPath(c), PageQuery(k), "")

PageUrl(k) == ListUrl("issues", k)

EvilUrl(k) == Url("https", EvilHost, ListPath("issues"), PageQuery(k), "")

MEDIATYPE == "application/vnd.github+json"

Request(url, mediatype, params) == [url |-> url, mediatype |-> mediatype, params |-> params]

NoRequest == Request(NoUrl, "", {})

NoOutcome == Outcome("none", "none", 0, 0)

\* The page the server holds at url (0 if none).
PageAt(url) ==
    IF \E k \in 1..gLen : PageUrl(k) = url
    THEN CHOOSE k \in 1..gLen : PageUrl(k) = url
    ELSE 0

\* The server's answer for page k when it neither fails nor rate limits.
PageResponse(k) ==
    Response(200, IntHdr(1), IntHdr(Now + 1), IntHdr(Now),
             IF k < gLen THEN PageUrl(k + 1)
             ELSE IF gEvil THEN EvilUrl(k + 1) ELSE NoUrl,
             k)

CallerParams == { {}, {<<"state", "all">>}, {<<"state", "all">>, <<"page", "2">>} }

PagInit ==
    /\ gLen \in 1..MaxPages
    /\ gEvil \in BOOLEAN
    /\ gParams \in CallerParams
    /\ gpc = "start"
    /\ gUrl = NoUrl
    /\ gReq = NoRequest
    /\ gSent = <<>>
    /\ gResp = NoResponse
    /\ gAttempts = 0
    /\ gSleeps = 0
    /\ gYield = <<>>
    /\ gErr = NoOutcome
    /\ gOnlyRL = TRUE

\* get_paginated up to its first call of get (lines 107-115).
PagStart ==
    /\ gpc = "start"
    /\ gpc' = "get"
    /\ gUrl' = PageUrl(1)
    /\ gReq' = Request(PageUrl(1), MEDIATYPE, paginated_params(gParams))
    /\ gSent' = <<>>
    /\ gAttempts' = 0
    /\ gSleeps' = 0
    /\ UNCHANGED <<gLen, gEvil, gParams, gResp, gYield, gErr, gOnlyRL, bvars>>

\* What follows one sess.get of the loop of get, given its outcome o.
GetResult(r, o) ==
    /\ gSent' = Append(gSent, gReq)
    /\ gAttempts' = gAttempts + 1
    /\ gResp' = r
    /\ gOnlyRL' = (gOnlyRL /\ (r.page # 0 \/ IsRateLimitSignal(r)))
    /\ CASE o.kind = "retry" ->
              /\ gpc' = "get"
              /\ gSleeps' = gSleeps + 1
              /\ UNCHANGED <<gYield, gErr>>
         [] o.kind = "return" ->
              /\ gpc' = "yield"
              /\ gYield' = Append(gYield, r.page)
              /\ UNCHANGED <<gSleeps, gErr>>
         [] OTHER ->
              /\ gpc' = "raised"
              /\ gErr' = o
              /\ UNCHANGED <<gSleeps, gYield>>
    /\ UNCHANGED <<gLen, gEvil, gParams, gUrl, gReq, bvars>>

\* One iteration of the loop of get (lines 84-103): the server answers the
\* request with the page, a rate-limit signal or a failure.
GetAttempt ==
    /\ gpc = "get"
    /\ PageAt(gReq.url) # 0
    /\ \E r \in {PageResponse(PageAt(gReq.url))} \cup OtherFailures
                \cup (IF gAttempts + 1 < MaxAttempts THEN RateLimitSignals ELSE {}) :
          GetResult(r, get_iteration(r))

\* sess.get raises instead of returning a response (lines 91-93).
GetTransportError ==
    /\ gpc = "get"
    /\ gSent' = Append(gSent, gReq)
    /\ gAttempts' = gAttempts + 1
    /\ gpc' = "raised"
    /\ gErr' = TransportFailure
    /\ gOnlyRL' = FALSE
    /\ gResp' = NoResponse
    /\ UNCHANGED <<gLen, gEvil, gParams, gUrl, gReq, gSleeps, gYield, bvars>>

\* The consumer asks for the next response: get_paginated resumes after
\* its yield (lines 118-127) and calls get again (line 115).
PagResume ==
    /\ gpc = "yield"
    /\ LET step == after_yield(gUrl, gResp)
       IN  CASE step.kind = "break" ->
                  /\ gpc' = "end"
                  /\ UNCHANGED <<gUrl, gReq, gSent, gAttempts, gSleeps, gErr>>
             [] step.kind = "raise" ->
                  /\ gpc' = "raised"
                  /\ gErr' = Outcome("raise", "AssertionError", 0, 0)
                  /\ UNCHANGED <<gUrl, gReq, gSent, gAttempts, gSleeps>>
             [] OTHER ->
                  /\ gpc' = "get"
                  /\ gUrl' = step.url
                  /\ gReq' = Request(step.url, gReq.mediatype, gReq.params)
                  /\ gSent' = <<>>
                  /\ gAttempts' = 0
                  /\ gSleeps' = 0
                  /\ UNCHANGED gErr
    /\ UNCHANGED <<gLen, gEvil, gParams, gResp, gYield, gOnlyRL, bvars>>

PagNext == PagStart \/ GetAttempt \/ GetTransportError \/ PagResume

(***************************************************************************)
(* The remote of a backup run.  Every collection lists the records 1 and   *)
(* 2; record 1 of issues and of comments reports one reaction, record 2    *)
(* none.  A remote is given by the collection whose listing has the shape  *)
(* `shape` (the two others are "plain"), by the shape of the reactions     *)
(* listings, and by whether its hosts ever fail a request (net).           *)
(***************************************************************************)
Page(ids, next) == [ids |-> ids, next |-> next]

Shapes == {"plain", "paged", "dupSame", "dupAcross", "evil", "evilRecord", "malformed"}

Listing(shape) ==
    CASE shape = "paged" -> << Page(<<1>>, "ok"), Page(<<2>>, "none") >>
      [] shape = "dupSame" -> << Page(<<1, 1, 2>>, "none") >>
      [] shape = "dupAcross" -> << Page(<<1, 2>>, "ok"), Page(<<2, 1>>, "none") >>
      [] shape = "evil" -> << Page(<<1, 2>>, "evil") >>
      [] OTHER -> << Page(<<1, 2>>, "none") >>

RShapes == {"one", "two", "evil", "clash"}

\* The reactions listing of record id of collection c: reaction ids are
\* 10 * id + k for issues and 100 * id + k for comments; under "clash" the
\* second page repeats the reaction of the first.
ReactionId(c, id, k) == (IF c = "issues" THEN 10 ELSE 100) * id + k

ReactionListing(rshape, c, id) ==
    CASE rshape = "two" ->
            << Page(<<ReactionId(c, id, 1)>>, "ok"), Page(<<ReactionId(c, id, 2)>>, "none") >>
      [] rshape = "evil" -> << Page(<<ReactionId(c, id, 1)>>, "evil") >>
      [] rshape = "clash" ->
            << Page(<<ReactionId(c, id, 1)>>, "ok"), Page(<<ReactionId(c, id, 1)>>, "none") >>
      [] OTHER -> << Page(<<ReactionId(c, id, 1)>>, "none") >>

Remotes ==
    [focus : {"issues", "comments", "labels"}, shape : Shapes, rshape : RShapes,
     net : {"faulty"}]

ListingOf(rem, c) == Listing(IF rem.focus = c THEN rem.shape ELSE "plain")

ItemPath(c, id) == ListPath(c) \o <<ToString(id)>>

RecordUrl(c, id) == Url("https", ApiHost, ItemPath(c, id), "", "")

ReactionsUrl(c, id, k) ==
    Url("https", ApiHost, ItemPath(c, id) \o <<"reactions">>, PageQuery(k), "")

\* The ids of page k of a listing.  A request past the listing's last
\* page (the target of a "next" link to another host) is answered with an
\* empty page.
PageIds(pages, k) == IF k \in DOMAIN pages THEN pages[k].ids ELSE <<>>

\* The "next" link of page k of a listing whose page k+1 is at nextUrl.
NextLink(pages, k, nextUrl) ==
    CASE k \notin DOMAIN pages -> NoUrl
      [] pages[k].next = "ok" -> nextUrl
      [] pages[k].next = "evil" -> [nextUrl EXCEPT !.netloc = EvilHost]
      [] OTHER -> NoUrl

\* An entry of a listing response: what issue["id"], issue["url"] and
\* issue["reactions"] hold.  Under "evilRecord" the listing gives record 2
\* a URL on another host.
Entry(rem, c, id) ==
    [id |-> id,
     url |-> IF rem.focus = c /\ rem.shape = "evilRecord" /\ id = 2
             THEN [RecordUrl(c, id) EXCEPT !.netloc = EvilHost]
             ELSE RecordUrl(c, id),
     reactions |-> [total_count |-> IF c # "labels" /\ id = 1 THEN 1 ELSE 0,
                    url |-> ReactionsUrl(c, id, 1)]]

\* Asset URLs referenced by the records.
ImagesHost == "user-images.githubusercontent.com"
WebHost == "github.com"
AvatarsHost == "avatars.githubusercontent.com"

Image(frag) == Url("https", ImagesHost, <<"", "1", "a.png">>, "", frag)
Avatar(user, query, frag) == Url("https", AvatarsHost, <<"", "u", user>>, query, frag)
RepoFile == Url("https", WebHost, <<"", "o", "r", "files", "7", "log.txt">>, "", "")
UserFile == Url("https", WebHost, <<"", "user-attachments", "files", "8", "x.zip">>, "", "")
Elsewhere == Url("https", "example.org", <<"", "page">>, "", "")
WebOther == Url("https", WebHost, <<"", "o", "r", "issues", "1">>, "", "")

\* A link urllib.parse.urlparse raises ValueError on: "https://[" (a
\* bracket that is not closed in the netloc).
Malformed == Url("https", "[", <<>>, "", "")

urlparse_raises(url) == url.netloc = "["

\* The JSON document the record's URL serves: its user.avatar_url and the
\* links of its markdown body, in document order.
Body(c, id, avatar, mdlinks) == [coll |-> c, id |-> id, avatar |-> avatar, links |-> mdlinks]

NoBody == Body("", 0, NoUrl, <<>>)

\* Under "malformed" the body of record 2 of the focus collection holds a
\* link that does not parse.  The avatar URL of comment 1 is that of issue
\* 1 with a fragment.
BadLinks(c) ==
    IF remote.focus = c /\ remote.shape = "malformed" THEN << Malformed >> ELSE <<>>

RecordBody(c, id) ==
    CASE c = "issues" /\ id = 1 ->
            Body(c, id, Avatar("1", "v=4", ""), << Image(""), Elsewhere, Image("top") >>)
      [] c = "issues" ->
            Body(c, id, Avatar("1", "", ""), << RepoFile, WebOther >> \o BadLinks(c))
      [] c = "comments" /\ id = 1 ->
            Body(c, id, Avatar("1", "v=4", "s"), << Image("") >>)
      [] c = "comments" ->
            Body(c, id, Avatar("2", "", ""), << UserFile >> \o BadLinks(c) \o << RepoFile >>)
      [] OTHER -> Body(c, id, NoUrl, <<>>)

(***************************************************************************)
(* The SQLite database.  db is what is committed to the file: what a later *)
(* connection sees.  work is what the run's connection sees, uncommitted   *)
(* statements included.  The connection is in autocommit mode              *)
(* (isolation_level=None, line 431): a statement outside a transaction is  *)
(* committed at once.  Tables are sequences of rows, in rowid order.       *)
(***************************************************************************)
Tables == {"issues", "comments", "labels", "issue_reactions", "comment_reactions", "files"}

\* create_tables on a new file.
EmptyDb == [t \in Tables |-> <<>>]

\* A blob: zeroblob(size) before the body is written into it.
Blob(zero, size, data) == [zero |-> zero, size |-> size, data |-> data]

BodySize(b) == 1 + Len(b.links)

zeroblob(size) == Blob(TRUE, size, NoBody)

Row(key, parent, json) == [key |-> key, parent |-> parent, json |-> json]

ReactionTable(c) == IF c = "issues" THEN "issue_reactions" ELSE "comment_reactions"

\* The column constraints of create_tables: which tables declare their
\* key column UNIQUE, and the parent table of a foreign key ("" if none).
HasUnique(t) == t # "files"

ParentTable(t) ==
    CASE t = "issue_reactions" -> "issues"
      [] t = "comment_reactions" -> "comments"
      [] OTHER -> ""

Keys(tables, t) == { tables[t][i].key : i \in DOMAIN tables[t] }

\* SELECT NULL FROM t WHERE id = :id ... fetchone()
Exists(tables, t, key) == key \in Keys(tables, t)

\* Mutant: the presence check never finds the id.
already_fetched_never(tables, c, id) == FALSE

\* The presence check of the listing loops (lines 231, 270, 308).
already_fetched(tables, c, id) == Exists(tables, c, id)

\* Whether INSERT INTO t of row raises sqlite3.IntegrityError.
ConstraintFails(tables, t, row) ==
    \/ HasUnique(t) /\ Exists(tables, t, row.key)
    \/ ParentTable(t) # "" /\ ~Exists(tables, ParentTable(t), row.parent)

Insert(tables, t, row) == [tables EXCEPT ![t] = Append(@, row)]

\* Mutant: the blob is opened on the table's first row, not on lastrowid.
WriteBlobFirstRow(tables, t, row, data) ==
    [tables EXCEPT ![t][1].json = Blob(FALSE, @.size, data)]

\* blobopen(t, column, rowid) and copyfileobj(body, blob).
WriteBlob(tables, t, row, data) ==
    [tables EXCEPT ![t][row].json = Blob(FALSE, @.size, data)]

\* Mutant: no BEGIN is executed, the connection stays in autocommit mode.
BeginSkipped == FALSE

\* db.execute("BEGIN"): whether the connection is in a transaction after.
Begin == TRUE

\* What is committed to the file once a statement has run: nothing yet
\* inside a transaction, the statement's effect in autocommit mode.
Durable(inTransaction, committed, after) == IF inTransaction THEN committed ELSE after

\* ROLLBACK (leaving "with db" by an exception), and what a crash leaves
\* for the next connection once SQLite has replayed its journal.
Rollback(committed) == committed

\* VACUUM rebuilds every table from its rows.
Vacuum(tables) == [t \in Tables |-> [i \in 1..Len(tables[t]) |-> tables[t][i]]]

(***************************************************************************)
(* The asset pass's pure parts.                                            *)
(***************************************************************************)
\* strip_prefix(seq, prefix) is not None
strip_prefix(seq, prefix) ==
    /\ Len(seq) >= Len(prefix)
    /\ \A i \in 1..Len(prefix) : seq[i] = prefix[i]

\* The components of path + "?" + query (lines 198-204).
PathWithQuery(url) ==
    IF url.query = "" THEN url.path
    ELSE [url.path EXCEPT ![Len(url.path)] = @ \o "?" \o url.query]

\* link_is_wanted, with the globals owner = "o" and repo = "r".  A URL
\* urlparse raises ValueError on is not wanted (lines 181-184).
link_is_wanted(url) ==
    /\ ~urlparse_raises(url)
    /\ \/ /\ url.scheme = "https" /\ url.netloc = ImagesHost
          /\ strip_prefix(url.path, <<"">>)
       \/ /\ url.scheme = "https" /\ url.netloc = WebHost
          /\ \E prefix \in { <<"", "o", "r", "files">>, <<"", "user-attachments", "files">> } :
                strip_prefix(url.path, prefix)
       \/ /\ url.scheme = "https" /\ url.netloc = AvatarsHost
          /\ strip_prefix(PathWithQuery(url), <<"">>)

\* urlunparse(urlparse(link)._replace(fragment = None))
discard_fragment(url) == [url EXCEPT !.fragment = ""]

\* What scrape_links yields for one blob: the avatar URL as it is, then the
\* body's links without their fragments.  json.loads fails on a blob of
\* zeros; urlparse (line 339, outside any try) raises on a link that does
\* not parse.
Yielded(link, exc) == [link |-> link, exc |-> exc]

scrape_link(link) ==
    IF urlparse_raises(link) THEN Yielded(link, "ValueError")
    ELSE Yielded(discard_fragment(link), "none")

scrape_blob(blob) ==
    IF blob.zero THEN << Yielded(NoUrl, "JSONDecodeError") >>
    ELSE << Yielded(blob.data.avatar, "none") >>
         \o [i \in 1..Len(blob.data.links) |-> scrape_link(blob.data.links[i])]

RECURSIVE scrape_rows(_)
scrape_rows(rows) ==
    IF rows = <<>> THEN <<>>
    ELSE scrape_blob(Head(rows).json) \o scrape_rows(Tail(rows))

\* all_json and scrape_links: the issues, then the comments, in rowid order.
scrape_links(tables) == scrape_rows(tables["issues"] \o tables["comments"])

\* Mutant: seen starts empty.
seen_nothing(tables) == {}

\* seen = set(url for (url,) in db.execute("SELECT url FROM files"))
seen_at_start(tables) == Keys(tables, "files")

\* The bytes an asset URL serves.
FileBody(link) == Body("files", 0, link, <<>>)

(***************************************************************************)
(* Spec: backup runs.                                                      *)
(***************************************************************************)
\* State that a run's steps leave alone unless they say otherwise.
walkState == <<coll, lurl, resp, idx>>
reactState == <<rurl, rresp>>
txState == <<db, work, inTx, rowid>>
assetState == <<links, lidx, seen>>
ghostState == <<startDb, calls, inserts, failure, badAt>>

Call(kind, c, id, u) == [kind |-> kind, coll |-> c, id |-> id, url |-> u]

\* An INSERT the run executed: the table, the id (0 for files), the url
\* (NoUrl but for files), and whether the key was present already.
Attempt(t, id, u, present) == [table |-> t, id |-> id, url |-> u, present |-> present]

\* The calls of get that end: for the resource's response ok, get returns
\* it or raises; rate-limit signals it can wait for keep it looping.
Ended(o, r) == [o |-> o, r |-> r]

GetEnds(ok) ==
    IF remote.net = "reliable" THEN { Ended(get_iteration(ok), ok) }
    ELSE { e \in { Ended(get_iteration(r), r) : r \in {ok} \cup OtherFailures \cup RateLimitSignals }
                \cup { Ended(TransportFailure, NoResponse) } :
             e.o.kind # "retry" }

Resource(next, page) == Response(200, IntHdr(1), IntHdr(Now + 1), IntHdr(Now), next, page)

\* The page of the listing lst that u addresses, whatever its host.
ListResponse(lst, k, nextUrl) == Resource(NextLink(lst, k, nextUrl), k)

Items(c) == PageIds(ListingOf(remote, c), resp.page)

CurEntry == Entry(remote, coll, Items(coll)[idx])

\* The response to the request of u links to a "next" page of another origin.
HasBadNext(u, r) == r.next # NoUrl /\ url_origin(r.next) # url_origin(u)

BRest ==
    /\ db = EmptyDb
    /\ work = EmptyDb
    /\ inTx = FALSE
    /\ pc = "idle"
    /\ run = 0
    /\ coll = "issues"
    /\ lurl = NoUrl
    /\ resp = NoResponse
    /\ idx = 0
    /\ rurl = NoUrl
    /\ rresp = NoResponse
    /\ body = NoBody
    /\ rowid = 0
    /\ links = <<>>
    /\ lidx = 0
    /\ seen = {}
    /\ startDb = EmptyDb
    /\ calls = <<>>
    /\ inserts = {}
    /\ failure = "none"
    /\ badAt = 0

\* __main__ (lines 431-435): connect, create_tables (IF NOT EXISTS), and
\* backup up to its first listing request.
StartRun ==
    /\ pc \in {"idle", "aborted", "done"}
    /\ run < MaxRuns
    /\ run' = run + 1
    /\ pc' = "walk"
    /\ coll' = "issues"
    /\ lurl' = NoUrl
    /\ resp' = NoResponse
    /\ idx' = 0
    /\ rurl' = NoUrl
    /\ rresp' = NoResponse
    /\ body' = NoBody
    /\ rowid' = 0
    /\ links' = <<>>
    /\ lidx' = 0
    /\ seen' = {}
    /\ work' = db
    /\ inTx' = FALSE
    /\ startDb' = db
    /\ calls' = <<>>
    /\ inserts' = {}
    /\ failure' = "none"
    /\ badAt' = 0
    /\ UNCHANGED <<remote, db, gvars>>

\* An exception leaves backup: "with db" rolls the open transaction back,
\* the finally clause closes the connection, the exit code is not 0.
Raise(exc) ==
    /\ pc' = "aborted"
    /\ failure' = exc
    /\ work' = Rollback(db)
    /\ inTx' = FALSE
    /\ UNCHANGED <<remote, db, run, walkState, reactState, body, rowid, assetState,
                   startDb, gvars>>

\* The process is killed: the next connection sees the committed state.
Crash ==
    /\ pc \notin {"idle", "aborted", "done"}
    /\ Raise("killed")
    /\ UNCHANGED <<calls, inserts, badAt>>

NextColl(c) == IF c = "issues" THEN "comments" ELSE "labels"

\* What the listing loop's generator does when asked for a response: the
\* first request of the walk, or after_yield of the last response.
WalkStep == IF resp = NoResponse THEN NextStep("next", ListUrl(coll, 1))
            ELSE after_yield(lurl, resp)

\* The listing has no further page (lines 119-120): the for loop ends and
\* backup goes on to the next collection, or to the asset pass.
WalkEnd ==
    /\ pc = "walk"
    /\ WalkStep.kind = "break"
    /\ IF coll = "labels"
       THEN /\ pc' = "scan"
            /\ UNCHANGED coll
       ELSE /\ pc' = "walk"
            /\ coll' = NextColl(coll)
    /\ lurl' = NoUrl
    /\ resp' = NoResponse
    /\ idx' = 0
    /\ UNCHANGED <<remote, run, reactState, txState, body, assetState, ghostState, gvars>>

\* The "next" link fails check_url_origin (line 125).
WalkOriginFail ==
    /\ pc = "walk"
    /\ WalkStep.kind = "raise"
    /\ Raise("AssertionError")
    /\ UNCHANGED <<calls, inserts, badAt>>

\* get of the first or the next page of the listing (line 115).
WalkFetch ==
    /\ pc = "walk"
    /\ WalkStep.kind = "next"
    /\ LET k == resp.page + 1
           u == WalkStep.url
           ok == ListResponse(ListingOf(remote, coll), k, ListUrl(coll, k + 1))
           log == Append(calls, Call("list", coll, 0, u))
       IN  /\ \E e \in GetEnds(ok) :
                 /\ calls' = log
                 /\ IF e.o.kind = "return"
                    THEN /\ pc' = "entry"
                         /\ lurl' = u
                         /\ resp' = e.r
                         /\ idx' = 1
                         /\ badAt' = IF badAt = 0 /\ HasBadNext(u, e.r) THEN Len(log) ELSE badAt
                         /\ UNCHANGED <<remote, run, coll, reactState, txState, body,
                                        assetState, startDb, inserts, failure, gvars>>
                    ELSE /\ Raise(e.o.exc)
                         /\ UNCHANGED <<inserts, badAt>>

\* Every entry of the page has been handled: the loop asks for the next
\* response.
PageDone ==
    /\ pc = "entry"
    /\ idx > Len(Items(coll))
    /\ pc' = "walk"
    /\ UNCHANGED <<remote, run, walkState, reactState, txState, body, assetState,
                   ghostState, gvars>>

\* The presence check finds the entry's id (lines 231-233, 270-272,
\* 308-310): continue.
SkipEntry ==
    /\ pc = "entry"
    /\ idx <= Len(Items(coll))
    /\ already_fetched(work, coll, CurEntry.id)
    /\ idx' = idx + 1
    /\ UNCHANGED <<remote, pc, run, coll, lurl, resp, reactState, txState, body,
                   assetState, ghostState, gvars>>

\* The record is missing: fetch its URL into a temporary file (lines
\* 235-236, 273, 311).  Only the issues loop checks the URL's origin.
FetchRecord ==
    /\ pc = "entry"
    /\ idx <= Len(Items(coll))
    /\ ~already_fetched(work, coll, CurEntry.id)
    /\ IF coll = "issues" /\ ~check_url_origin(BASE_URL, CurEntry.url)
       THEN /\ Raise("AssertionError")
            /\ UNCHANGED <<calls, inserts, badAt>>
       ELSE \E e \in GetEnds(Resource(NoUrl, 1)) :
              /\ calls' = Append(calls, Call("record", coll, CurEntry.id, CurEntry.url))
              /\ IF e.o.kind = "return"
                 THEN /\ pc' = "begin"
                      /\ body' = RecordBody(coll, CurEntry.id)
                      /\ UNCHANGED <<remote, run, walkState, reactState, txState, assetState,
                                     startDb, inserts, failure, badAt, gvars>>
                 ELSE /\ Raise(e.o.exc)
                      /\ UNCHANGED <<inserts, badAt>>

\* BEGIN and the INSERT of the placeholder row (lines 237-243, 274-280,
\* 312-318).
InsertPlaceholder ==
    /\ pc = "begin"
    /\ LET id == CurEntry.id
           row == Row(id, 0, zeroblob(BodySize(body)))
           after == Insert(work, coll, row)
       IN  /\ inserts' = inserts \cup { Attempt(coll, id, NoUrl, Exists(work, coll, id)) }
           /\ IF ConstraintFails(work, coll, row)
              THEN /\ Raise("IntegrityError")
                   /\ UNCHANGED <<calls, badAt>>
              ELSE /\ inTx' = Begin
                   /\ work' = after
                   /\ db' = Durable(Begin, db, after)
                   /\ rowid' = Len(after[coll])
                   /\ pc' = "write"
                   /\ UNCHANGED <<remote, run, walkState, reactState, body, assetState,
                                  startDb, calls, failure, badAt, gvars>>

\* Mutant: the body is not copied into the blob before the reactions are
\* fetched.
WriteBodyOmitted ==
    /\ pc = "write"
    /\ pc' = IF coll # "labels" /\ CurEntry.reactions.total_count # 0
             THEN "react" ELSE "commit"
    /\ rurl' = NoUrl
    /\ rresp' = NoResponse
    /\ UNCHANGED <<remote, txState, run, walkState, body, assetState, ghostState, gvars>>

\* blobopen and copyfileobj (lines 245-248, 282-285, 320-323); then the
\* test of the reaction count (lines 253, 290).
WriteBody ==
    /\ pc = "write"
    /\ LET after == WriteBlob(work, coll, rowid, body)
       IN  /\ work' = after
           /\ db' = Durable(inTx, db, after)
    /\ pc' = IF coll # "labels" /\ CurEntry.reactions.total_count # 0
             THEN "react" ELSE "commit"
    /\ rurl' = NoUrl
    /\ rresp' = NoResponse
    /\ UNCHANGED <<remote, inTx, run, walkState, body, rowid, assetState, ghostState, gvars>>

\* What the reactions loop's generator does when asked for a response:
\* check_url_origin of the reactions URL and the first request (lines
\* 254-255, 291-292), or after_yield of the last response.
ReactStep ==
    IF rresp = NoResponse
    THEN IF check_url_origin(BASE_URL, CurEntry.reactions.url)
         THEN NextStep("next", CurEntry.reactions.url)
         ELSE NextStep("raise", CurEntry.reactions.url)
    ELSE after_yield(rurl, rresp)

\* The reactions listing has no further page: the block of "with db" ends.
ReactEnd ==
    /\ pc = "react"
    /\ ReactStep.kind = "break"
    /\ pc' = "commit"
    /\ UNCHANGED <<remote, run, walkState, reactState, txState, body, assetState,
                   ghostState, gvars>>

ReactOriginFail ==
    /\ pc = "react"
    /\ ReactStep.kind = "raise"
    /\ Raise("AssertionError")
    /\ UNCHANGED <<calls, inserts, badAt>>

\* INSERT of the reactions of one page, in order (lines 256-261, 293-298):
\* the tables after, or the first IntegrityError.
RECURSIVE insert_reactions(_, _, _, _)
insert_reactions(tables, t, parent, ids) ==
    IF ids = <<>> THEN [ok |-> TRUE, tables |-> tables]
    ELSE LET row == Row(Head(ids), parent, Blob(FALSE, 1, Body(t, Head(ids), NoUrl, <<>>)))
         IN  IF ConstraintFails(tables, t, row) THEN [ok |-> FALSE, tables |-> tables]
             ELSE insert_reactions(Insert(tables, t, row), t, parent, Tail(ids))

\* get of the first or the next page of reactions and the INSERT of each.
ReactFetch ==
    /\ pc = "react"
    /\ ReactStep.kind = "next"
    /\ LET k == rresp.page + 1
           id == CurEntry.id
           u == ReactStep.url
           lst == ReactionListing(remote.rshape, coll, id)
           ok == ListResponse(lst, k, ReactionsUrl(coll, id, k + 1))
           log == Append(calls, Call("reactions", coll, id, u))
           t == ReactionTable(coll)
           ids == PageIds(lst, k)
           done == insert_reactions(work, t, id, ids)
       IN  /\ \E e \in GetEnds(ok) :
                 /\ calls' = log
                 /\ IF e.o.kind = "return"
                    THEN /\ inserts' = inserts \cup
                               { Attempt(t, ids[i], NoUrl, Exists(work, t, ids[i])) : i \in DOMAIN ids }
                         /\ badAt' = IF badAt = 0 /\ HasBadNext(u, e.r) THEN Len(log) ELSE badAt
                         /\ IF done.ok
                            THEN /\ work' = done.tables
                                 /\ db' = Durable(inTx, db, done.tables)
                                 /\ rurl' = u
                                 /\ rresp' = e.r
                                 /\ UNCHANGED <<remote, inTx, pc, run, walkState, body, rowid,
                                                assetState, startDb, failure, gvars>>
                            ELSE Raise("IntegrityError")
                    ELSE /\ Raise(e.o.exc)
                         /\ UNCHANGED <<inserts, badAt>>

\* Leaving "with db" normally commits (lines 238, 275, 313); the loop goes
\* on to the page's next entry.
Commit ==
    /\ pc = "commit"
    /\ db' = work
    /\ inTx' = FALSE
    /\ pc' = "entry"
    /\ idx' = idx + 1
    /\ body' = NoBody
    /\ UNCHANGED <<remote, work, run, coll, lurl, resp, reactState, rowid, assetState,
                   ghostState, gvars>>

(***************************************************************************)
(* The asset pass (lines 325-359).                                         *)
(***************************************************************************)
\* seen is read from the files table; scrape_links is a generator over
\* the issues and comments tables, which the pass does not change.
Scan ==
    /\ pc = "scan"
    /\ seen' = seen_at_start(work)
    /\ links' = scrape_links(work)
    /\ lidx' = 1
    /\ pc' = "link"
    /\ UNCHANGED <<remote, run, walkState, reactState, txState, body, ghostState, gvars>>

\* scrape_links is exhausted: backup returns and __main__ runs VACUUM
\* (line 436) and exits with code 0.
Compact ==
    /\ pc = "link"
    /\ lidx > Len(links)
    /\ db' = Vacuum(db)
    /\ work' = Vacuum(db)
    /\ pc' = "done"
    /\ UNCHANGED <<remote, inTx, run, walkState, reactState, body, rowid, assetState,
                   ghostState, gvars>>

\* The next link is not wanted or already seen (lines 342-345), or
\* scrape_links raises.
SkipLink ==
    /\ pc = "link"
    /\ lidx <= Len(links)
    /\ IF links[lidx].exc # "none"
       THEN /\ Raise(links[lidx].exc)
            /\ UNCHANGED <<calls, inserts, badAt, lidx>>
       ELSE /\ ~link_is_wanted(links[lidx].link) \/ links[lidx].link \in seen
            /\ lidx' = lidx + 1
            /\ UNCHANGED <<remote, pc, run, walkState, reactState, txState, body, links, seen,
                           ghostState, gvars>>

\* A wanted, unseen link: add it to seen and fetch it (lines 346-347).
FetchFile ==
    /\ pc = "link"
    /\ lidx <= Len(links)
    /\ links[lidx].exc = "none"
    /\ link_is_wanted(links[lidx].link)
    /\ links[lidx].link \notin seen
    /\ \E e \in GetEnds(Resource(NoUrl, 1)) :
          /\ calls' = Append(calls, Call("file", "files", 0, links[lidx].link))
          /\ IF e.o.kind = "return"
             THEN /\ seen' = seen \cup {links[lidx].link}
                  /\ body' = FileBody(links[lidx].link)
                  /\ pc' = "fbegin"
                  /\ UNCHANGED <<remote, run, walkState, reactState, txState, links, lidx,
                                 startDb, inserts, failure, badAt, gvars>>
             ELSE /\ Raise(e.o.exc)
                  /\ UNCHANGED <<inserts, badAt>>

\* BEGIN and the INSERT of the placeholder row into files (lines 348-354).
InsertFilePlaceholder ==
    /\ pc = "fbegin"
    /\ LET link == links[lidx].link
           row == Row(link, 0, zeroblob(BodySize(body)))
           after == Insert(work, "files", row)
       IN  /\ inserts' = inserts \cup { Attempt("files", 0, link, Exists(work, "files", link)) }
           /\ IF ConstraintFails(work, "files", row)
              THEN /\ Raise("IntegrityError")
                   /\ UNCHANGED <<calls, badAt>>
              ELSE /\ inTx' = Begin
                   /\ work' = after
                   /\ db' = Durable(Begin, db, after)
                   /\ rowid' = Len(after["files"])
                   /\ pc' = "fwrite"
                   /\ UNCHANGED <<remote, run, walkState, reactState, body, assetState,
                                  startDb, calls, failure, badAt, gvars>>

\* blobopen and copyfileobj into files.data (lines 356-359).
WriteFile ==
    /\ pc = "fwrite"
    /\ LET after == WriteBlob(work, "files", rowid, body)
       IN  /\ work' = after
           /\ db' = Durable(inTx, db, after)
    /\ pc' = "fcommit"
    /\ UNCHANGED <<remote, inTx, run, walkState, reactState, body, rowid, assetState,
                   ghostState, gvars>>

\* Leaving "with db" commits (line 349); the loop takes the next link.
CommitFile ==
    /\ pc = "fcommit"
    /\ db' = work
    /\ inTx' = FALSE
    /\ pc' = "link"
    /\ lidx' = lidx + 1
    /\ body' = NoBody
    /\ UNCHANGED <<remote, work, run, walkState, reactState, rowid, links, seen,
                   ghostState, gvars>>

Next ==
    \/ StartRun \/ Crash
    \/ WalkEnd \/ WalkOriginFail \/ WalkFetch
    \/ PageDone \/ SkipEntry \/ FetchRecord
    \/ InsertPlaceholder \/ WriteBody
    \/ ReactEnd \/ ReactOriginFail \/ ReactFetch \/ Commit
    \/ Scan \/ SkipLink \/ FetchFile
    \/ InsertFilePlaceholder \/ WriteFile \/ CommitFile \/ Compact

\* The paginator's variables, at rest during backup runs.
PagIdle ==
    /\ gLen = 1
    /\ gEvil = FALSE
    /\ gParams = {}
    /\ gpc = "end"
    /\ gUrl = NoUrl
    /\ gReq = NoRequest
    /\ gSent = <<>>
    /\ gResp = NoResponse
    /\ gAttempts = 0
    /\ gSleeps = 0
    /\ gYield = <<>>
    /\ gErr = NoOutcome
    /\ gOnlyRL = TRUE

Init == remote \in Remotes /\ BRest /\ PagIdle

Spec == Init /\ [][Next]_vars

\* The paginator alone: no backup run is started.
InitPag ==
    /\ PagInit
    /\ remote = [focus |-> "issues", shape |-> "plain", rshape |-> "one", net |-> "faulty"]
    /\ BRest

SpecPag == InitPag /\ [][PagNext]_vars

(***************************************************************************)
(* SpecLive: runs in which nothing fails.  Every listing is a finite chain *)
(* of pages on the API's host, every request is answered in the end by the *)
(* resource, no row is listed with a clashing id, no link is malformed,    *)
(* and the process is not killed.  backup is one sequential thread: a step *)
(* that can be taken is taken.                                             *)
(***************************************************************************)
LiveRemotes ==
    [focus : {"issues", "comments", "labels"},
     shape : {"plain", "paged", "dupSame", "dupAcross"},
     rshape : {"one", "two"},
     net : {"reliable"}]

InitLive == remote \in LiveRemotes /\ BRest /\ PagIdle

NextLive ==
    \/ StartRun
    \/ WalkEnd \/ WalkFetch
    \/ PageDone \/ SkipEntry \/ FetchRecord
    \/ InsertPlaceholder \/ WriteBody
    \/ ReactEnd \/ ReactFetch \/ Commit
    \/ Scan \/ SkipLink \/ FetchFile
    \/ InsertFilePlaceholder \/ WriteFile \/ CommitFile \/ Compact

SpecLive == InitLive /\ [][NextLive]_vars /\ WF_vars(NextLive)

(***************************************************************************)
(* SpecStore: the transaction that stores one file (lines 348-359) on any  *)
(* store and for any URL, the URL's row being there included: the store as *)
(* a run meets it when another connection to the same file has committed   *)
(* the URL since the run read seen (line 340).                             *)
(***************************************************************************)
AssetUrls == { Image(""), RepoFile, UserFile }

\* The files tables of at most MaxFiles rows that runs of the program leave.
RECURSIVE FileTables(_)
FileTables(n) ==
    IF n = 0 THEN { <<>> }
    ELSE FileTables(n - 1)
         \cup { Append(rows, Row(u, 0, Blob(FALSE, BodySize(FileBody(u)), FileBody(u)))) :
                  rows \in { r \in FileTables(n - 1) : Len(r) = n - 1 },
                  u \in AssetUrls }

StoredFiles == { rows \in FileTables(MaxFiles) :
                   \A i, j \in DOMAIN rows : i # j => rows[i].key # rows[j].key }

InitStore ==
    /\ PagIdle
    /\ remote = [focus |-> "issues", shape |-> "plain", rshape |-> "one", net |-> "faulty"]
    /\ \E rows \in StoredFiles : db = [EmptyDb EXCEPT !["files"] = rows]
    /\ work = db
    /\ startDb = db
    /\ \E u \in AssetUrls :
          /\ links = << Yielded(u, "none") >>
          /\ body = FileBody(u)
          /\ seen = {u}
    /\ lidx = 1
    /\ pc = "fbegin"
    /\ inTx = FALSE
    /\ run = 1
    /\ coll = "labels"
    /\ lurl = NoUrl
    /\ resp = NoResponse
    /\ idx = 0
    /\ rurl = NoUrl
    /\ rresp = NoResponse
    /\ rowid = 0
    /\ calls = <<>>
    /\ inserts = {}
    /\ failure = "none"
    /\ badAt = 0

StoreNext == InsertFilePlaceholder \/ WriteFile \/ CommitFile \/ Crash

SpecStore == InitStore /\ [][StoreNext]_vars

(***************************************************************************)
(* Properties.                                                             *)
(***************************************************************************)
Range(seq) == { seq[i] : i \in DOMAIN seq }

Rows(tables, t) == Range(tables[t])

RecordTables == {"issues", "comments", "labels"}

\* The rows of tables[t] that hold key.
RowsWith(tables, t, key) == { i \in DOMAIN tables[t] : tables[t][i].key = key }

\* The complete body of the row of table t with this key: the document the
\* record's URL serves, or the bytes of the file.
FetchedBlob(t, key) ==
    IF t = "files" THEN Blob(FALSE, BodySize(FileBody(key)), FileBody(key))
    ELSE Blob(FALSE, BodySize(RecordBody(t, key)), RecordBody(t, key))

\* The run holds a placeholder row, or its written body, in a transaction
\* that has not ended.
PlaceholderPending == pc \in {"write", "react", "commit", "fwrite", "fcommit"}

PendingTable == IF pc \in {"fwrite", "fcommit"} THEN "files" ELSE coll

PendingKey == IF pc \in {"fwrite", "fcommit"} THEN links[lidx].link ELSE CurEntry.id

\* C1 (no partial visibility): every row of issues, comments, labels and
\* files in the committed database holds its complete fetched body, never
\* the placeholder; and when a run is interrupted between the INSERT of a
\* placeholder row and the end of its transaction, the database a later
\* run opens does not hold that row's key.
C1_NoPartialVisibility ==
    /\ [](\A t \in RecordTables \cup {"files"} : \A row \in Rows(db, t) :
             row.json = FetchedBlob(t, row.key))
    /\ [][(PlaceholderPending /\ pc' = "aborted")
             => ~Exists(db', PendingTable, PendingKey)]_vars

\* A run was killed after the INSERT of a placeholder and the key is absent
\* from the committed database.
C1_Witness ==
    /\ pc = "aborted"
    /\ failure = "killed"
    /\ \E a \in inserts : /\ a.table \in RecordTables
                          /\ ~a.present
                          /\ ~Exists(db, a.table, a.id)

\* C2 (idempotent resume): a record present when the run started is
\* neither fetched (its URL, its reactions URL) nor inserted by that run.
C2_IdempotentResume ==
    /\ \A call \in Range(calls) :
          call.kind \in {"record", "reactions"} => ~Exists(startDb, call.coll, call.id)
    /\ \A a \in inserts :
          a.table \in RecordTables => ~Exists(startDb, a.table, a.id)

\* A run that started with issue 1 present and issue 2 missing, both
\* listed, has completed.
C2_Witness ==
    /\ pc = "done"
    /\ Exists(startDb, "issues", 1)
    /\ ~Exists(startDb, "issues", 2)
    /\ Exists(db, "issues", 2)

\* What one uninterrupted run on an empty database commits for a remote.
ListedIds(rem, c) ==
    UNION { Range(ListingOf(rem, c)[k].ids) : k \in DOMAIN ListingOf(rem, c) }

ListedReactions(rem, c, id) ==
    UNION { Range(ReactionListing(rem.rshape, c, id)[k].ids) :
              k \in DOMAIN ReactionListing(rem.rshape, c, id) }

ReferencedLinks(rem) ==
    UNION { {RecordBody(c, id).avatar}
            \cup { discard_fragment(l) : l \in Range(RecordBody(c, id).links) } :
              c \in {"issues", "comments"}, id \in {1, 2} }

CompleteRun(rem, t) ==
    CASE t \in RecordTables ->
            { Row(id, 0, FetchedBlob(t, id)) : id \in ListedIds(rem, t) }
      [] t = "files" ->
            { Row(u, 0, FetchedBlob(t, u)) : u \in { l \in ReferencedLinks(rem) : link_is_wanted(l) } }
      [] OTHER ->
            UNION { { Row(rid, id, Blob(FALSE, 1, Body(t, rid, NoUrl, <<>>))) :
                        rid \in ListedReactions(rem, ParentTable(t), id) } :
                    id \in { n \in ListedIds(rem, ParentTable(t)) :
                               Entry(rem, ParentTable(t), n).reactions.total_count # 0 } }

\* C3 (abort-then-resume equivalence): when a run completes, after any
\* number of aborted runs, the database holds exactly the rows one
\* uninterrupted run on an empty database commits, each once.
C3_AbortResumeEquivalence ==
    pc = "done" =>
        \A t \in Tables : /\ Rows(db, t) = CompleteRun(remote, t)
                          /\ Len(db[t]) = Cardinality(CompleteRun(remote, t))

\* A run completed that started from what aborted runs had committed.
C3_Witness ==
    /\ pc = "done"
    /\ run = MaxRuns
    /\ startDb # EmptyDb
    /\ \E t \in Tables : Len(startDb[t]) < Len(db[t])

\* C4 (id uniqueness): in issues, comments and labels an id is held by at
\* most one row, committed or not; and no INSERT is executed for an id the
\* table holds, so a repeated listing entry is skipped.
C4_IdUniqueness ==
    /\ \A t \in RecordTables : \A key \in Keys(work, t) \cup Keys(db, t) :
          /\ Cardinality(RowsWith(work, t, key)) <= 1
          /\ Cardinality(RowsWith(db, t, key)) <= 1
    /\ \A a \in inserts : a.table \in RecordTables => ~a.present

\* A run over a listing that repeats ids on later pages has completed.
C4_Witness ==
    /\ pc = "done"
    /\ remote.shape \in {"dupSame", "dupAcross"}
    /\ \A t \in RecordTables : Len(db[t]) = 2

FileCalls == SelectSeq(calls, LAMBDA call : call.kind = "file")

\* C5 (dedup by URL): files holds at most one row per URL, committed or
\* not; a run fetches no asset URL twice; and when a run completes, every
\* wanted URL the stored issues and comments yield has its row, URLs that
\* differ in their query string included.
C5_DedupByUrl ==
    /\ \A key \in Keys(work, "files") \cup Keys(db, "files") :
          /\ Cardinality(RowsWith(work, "files", key)) <= 1
          /\ Cardinality(RowsWith(db, "files", key)) <= 1
    /\ \A i, j \in DOMAIN FileCalls : i # j => FileCalls[i].url # FileCalls[j].url
    /\ pc = "done" =>
          Keys(db, "files") = { y.link : y \in { x \in Range(scrape_links(db)) : link_is_wanted(x.link) } }

\* A later run found files stored and completed; two avatar URLs that
\* differ only in the query string have a row each.
C5_Witness ==
    /\ pc = "done"
    /\ startDb["files"] # <<>>
    /\ Len(startDb["files"]) < Len(db["files"])
    /\ Exists(db, "files", Avatar("1", "v=4", ""))
    /\ Exists(db, "files", Avatar("1", "", ""))

CallsAfterBad == { i \in DOMAIN calls : i > badAt }

\* The original reading of C6: once a response whose "next" link leaves
\* the origin has been received, the run issues no request at all.
C6_NoRequestAfterBadNext == badAt # 0 => CallsAfterBad = {}

\* C6 (pagination origin safety, amended): once a listing response whose
\* "next" link leaves the origin has been received, the run requests no
\* further listing page and no asset, and never leaves that collection's
\* walk; the only requests it still issues are for the bodies and the
\* reactions of the records on that page.  After such a response to a
\* reactions request it issues no request at all.
C6_NoPageAfterBadNext ==
    badAt # 0 =>
        /\ pc \in {"entry", "begin", "write", "react", "commit", "walk", "aborted"}
        /\ coll = calls[badAt].coll
        /\ calls[badAt].kind = "reactions" => CallsAfterBad = {}
        /\ \A i \in CallsAfterBad :
              /\ calls[i].kind \in {"record", "reactions"}
              /\ calls[i].coll = calls[badAt].coll
              /\ calls[i].id \in Range(Items(coll))

\* The walk failed on the origin check after the run had fetched records
\* of the page that carried the link.
C6_Witness ==
    /\ badAt # 0
    /\ pc = "aborted"
    /\ failure = "AssertionError"
    /\ \E i \in CallsAfterBad : calls[i].kind = "record"

\* C7 (rate-limit retry never gives up): after a response that signals an
\* exhausted rate allowance get is about to reissue its request, whatever
\* the reset time; every request of one call of get is the same; and get
\* returns only successful responses.
C7_RateLimitAlwaysRetried ==
    /\ IsRateLimitSignal(gResp) => (gpc = "get" /\ gSleeps = gAttempts)
    /\ \A i \in DOMAIN gSent : gSent[i] = gReq
    /\ gpc = "yield" => (IsSuccess(gResp) /\ ~IsRateLimitSignal(gResp))

\* C8 (no retry on other failures): after a response with a non-success
\* status that is no rate-limit signal, get has raised an HTTP error with
\* that status, without sleeping after it.
C8_OtherFailuresRaiseHTTPError ==
    (gResp # NoResponse /\ ~IsSuccess(gResp) /\ ~IsRateLimitSignal(gResp)) =>
        /\ gpc = "raised"
        /\ gErr.exc = "HTTPError"
        /\ gErr.status = gResp.status
        /\ gSleeps = gAttempts - 1

\* C9 (pages exactly once): over a chain of same-origin pages, with only
\* rate-limit signals in between, the walk yields the pages in chain
\* order, none skipped or repeated, and all of them when it ends.
C9_PagesExactlyOnce ==
    (~gEvil /\ gOnlyRL) =>
        /\ gYield = [k \in 1..Len(gYield) |-> k]
        /\ Len(gYield) <= gLen
        /\ gpc \in {"end", "raised"} => Len(gYield) = gLen

\* C10 (write-once, monotone store): no step changes, removes or
\* duplicates a committed row: every key of the committed database keeps
\* its rows' number and bodies.
C10_WriteOnceMonotone ==
    [][\A t \in Tables : \A key \in Keys(db, t) :
          /\ Cardinality(RowsWith(db', t, key)) = Cardinality(RowsWith(db, t, key))
          /\ { db'[t][i].json : i \in RowsWith(db', t, key) }
                = { db[t][i].json : i \in RowsWith(db, t, key) }]_vars

\* A later run added rows to a database that held some, was compacted, and
\* the rows it started with are still there.
C10_Witness ==
    /\ pc = "done"
    /\ run > 1
    /\ \A t \in RecordTables : startDb[t] # <<>> /\ Rows(startDb, t) \subseteq Rows(db, t)
    /\ Len(startDb["files"]) < Len(db["files"])

\* C11 (exclusive file insert): an INSERT into files of a URL the table
\* holds fails with a constraint error and leaves the store as it was; the
\* table never holds two rows of one URL.
C11_FileInsertExclusive ==
    /\ \A key \in Keys(work, "files") : Cardinality(RowsWith(work, "files", key)) <= 1
    /\ (\E a \in inserts : a.table = "files" /\ a.present) =>
          /\ pc = "aborted"
          /\ failure = "IntegrityError"
          /\ db = startDb

\* C12 (fragment-insensitive keys): no key of files, and no asset request,
\* carries a fragment, whether the URL came from a body's link or from an
\* avatar_url; references that differ only in their fragment share one row.
C12_FragmentInsensitiveKeys ==
    /\ \A key \in Keys(work, "files") \cup Keys(db, "files") : key.fragment = ""
    /\ \A i \in DOMAIN FileCalls : FileCalls[i].url.fragment = ""
    /\ \A k1, k2 \in Keys(db, "files") :
          discard_fragment(k1) = discard_fragment(k2) => k1 = k2

\* C13 (malformed URLs are never errors): no run ends with an exception at
\* a link of a stored body that does not parse as a URL.
C13_MalformedLinkSkipped ==
    (pc = "aborted" /\ failure # "killed" /\ lidx \in DOMAIN links) =>
        ~urlparse_raises(links[lidx].link)

\* The listing requests of the run for collection c.
ListCalls(c) == { i \in DOMAIN calls : calls[i].kind = "list" /\ calls[i].coll = c }

\* The wanted links the stored issues and comments yield.
WantedLinks(tables) ==
    { y.link : y \in { x \in Range(scrape_links(tables)) : x.exc = "none" /\ link_is_wanted(x.link) } }

\* C14 (exit code 0 means complete): when the program exits with code 0 no
\* failure occurred, the run requested every page of each of the three
\* listings, whose last page has no "next" link, every listed record is
\* stored with its body, and every wanted link of the stored bodies has its
\* row in files; a run in which a failure occurred ends aborted.
C14_ExitZeroMeansComplete ==
    /\ pc = "done" =>
          /\ failure = "none"
          /\ \A c \in RecordTables :
                /\ { calls[i].url : i \in ListCalls(c) }
                      = { ListUrl(c, k) : k \in DOMAIN ListingOf(remote, c) }
                /\ ListingOf(remote, c)[Len(ListingOf(remote, c))].next = "none"
                /\ \A id \in ListedIds(remote, c) :
                      \E row \in Rows(db, c) : row.key = id /\ ~row.json.zero
          /\ \A u \in WantedLinks(db) :
                \E row \in Rows(db, "files") : row.key = u /\ ~row.json.zero
    /\ failure # "none" => pc = "aborted"

\* A run over a listing of two pages exited with code 0 after an earlier
\* run had failed.
C14_Witness ==
    /\ pc = "done"
    /\ run > 1
    /\ remote.shape = "paged"
    /\ Cardinality(ListCalls(remote.focus)) = 2

\* The store holds what a complete run leaves.
IsCompleteStore(tables) ==
    \A t \in Tables : /\ Rows(tables, t) = CompleteRun(remote, t)
                      /\ Len(tables[t]) = Cardinality(CompleteRun(remote, t))

\* The original reading of C15: a run on the store of a complete run
\* issues no request at all and commits nothing.
C15_RerunNoFetch ==
    (run > 0 /\ IsCompleteStore(startDb)) => (calls = <<>> /\ db = startDb)

\* C15 (rerun is cheap, amended): a run on the store of a complete run
\* issues listing requests only (no record, reaction or asset request),
\* executes no INSERT and commits nothing; when it completes it has
\* requested each page of each listing once.
C15_RerunOnlyLists ==
    (run > 0 /\ IsCompleteStore(startDb)) =>
        /\ \A i \in DOMAIN calls : calls[i].kind = "list"
        /\ inserts = {}
        /\ db = startDb
        /\ work = startDb
        /\ pc = "done" =>
              \A c \in RecordTables : Cardinality(ListCalls(c)) = Len(ListingOf(remote, c))

\* A run on the store of a complete run has completed, over a listing of
\* two pages.
C15_Witness ==
    /\ pc = "done"
    /\ IsCompleteStore(startDb)
    /\ remote.shape = "dupAcross"
    /\ Len(calls) = 4

ReactionTables == {"issue_reactions", "comment_reactions"}

\* The original reading of C16: a record's reactions are requested, and
\* its reaction rows inserted, only once the record is committed.
C16_ReactionsAfterParentCommit ==
    /\ \A i \in DOMAIN calls :
          calls[i].kind = "reactions" => Exists(db, calls[i].coll, calls[i].id)
    /\ \A t \in ReactionTables : \A row \in Rows(work, t) :
          Exists(db, ParentTable(t), row.parent)

\* C16 (reactions after their parent, amended): a record's reactions are
\* requested only after the record's row has been inserted and its body
\* written in the transaction that is still open; every reaction row, in
\* the transaction and in the committed database, has its parent's
\* complete row in the same state, so no reaction is committed before its
\* parent.
C16_ReactionsAfterParentInsert ==
    /\ [](\A t \in ReactionTables :
             /\ \A row \in Rows(work, t) :
                   Row(row.parent, 0, FetchedBlob(ParentTable(t), row.parent))
                       \in Rows(work, ParentTable(t))
             /\ \A row \in Rows(db, t) :
                   Row(row.parent, 0, FetchedBlob(ParentTable(t), row.parent))
                       \in Rows(db, ParentTable(t)))
    /\ [][(Len(calls') = Len(calls) + 1 /\ calls'[Len(calls')].kind = "reactions") =>
             /\ inTx
             /\ Row(calls'[Len(calls')].id, 0,
                    FetchedBlob(calls'[Len(calls')].coll, calls'[Len(calls')].id))
                    \in Rows(work, calls'[Len(calls')].coll)
             /\ ~Exists(db, calls'[Len(calls')].coll, calls'[Len(calls')].id)]_vars

\* A reaction row has been inserted while its parent's row is written but
\* not committed.
C16_Witness ==
    /\ pc = "react"
    /\ rresp # NoResponse
    /\ Exists(work, coll, CurEntry.id)
    /\ ~Exists(db, coll, CurEntry.id)
    /\ \E row \in Rows(work, ReactionTable(coll)) : row.parent = CurEntry.id

\* The place of an asset URL in the lexicographic order of (destination,
\* source URL), the destination being the host's name and the path (with
\* the query, for avatars), or "files" and the rest of the path:
\*   avatars.githubusercontent.com/u/1        .../u/1
\*   avatars.githubusercontent.com/u/1?v=4    .../u/1?v=4
\*   avatars.githubusercontent.com/u/1?v=4    .../u/1?v=4#s
\*   avatars.githubusercontent.com/u/2        .../u/2
\*   files/7/log.txt                          https://github.com/o/r/files/7/log.txt
\*   files/8/x.zip                            https://github.com/user-attachments/files/8/x.zip
\*   user-images.githubusercontent.com/1/a.png
LexRank(u) ==
    CASE u = Avatar("1", "", "") -> 1
      [] u = Avatar("1", "v=4", "") -> 2
      [] u = Avatar("1", "v=4", "s") -> 3
      [] u = Avatar("2", "", "") -> 4
      [] u = RepoFile -> 5
      [] u = UserFile -> 6
      [] OTHER -> 7

\* C17 (deterministic asset order): the asset requests of one run are
\* issued in lexicographic order of (destination, source URL).
C17_AssetOrderLexicographic ==
    \A i, j \in DOMAIN FileCalls :
        i < j => LexRank(FileCalls[i].url) < LexRank(FileCalls[j].url)

Running == pc \notin {"idle", "aborted", "done"}

\* C18 (termination): when nothing fails a run that has started completes;
\* and the step that completes it is taken only when the run has requested
\* every page of each listing, the last of which has no "next" link, and
\* every wanted link the stored bodies yield has been seen.
C18_Termination ==
    /\ Running ~> (pc = "done")
    /\ [][(pc # "done" /\ pc' = "done") =>
             /\ \A c \in RecordTables :
                   /\ { calls[i].url : i \in ListCalls(c) }
                         = { ListUrl(c, k) : k \in DOMAIN ListingOf(remote, c) }
                   /\ ListingOf(remote, c)[Len(ListingOf(remote, c))].next = "none"
             /\ WantedLinks(work) \subseteq seen
             /\ lidx > Len(links)]_vars

\* A first run over listings of two pages, of records and of reactions,
\* has completed.
C18_Witness ==
    /\ pc = "done"
    /\ run = 1
    /\ remote.net = "reliable"
    /\ remote.shape = "paged"
    /\ remote.rshape = "two"

\* The rows of the reactions of record id of collection c.
ReactionsOf(tables, c, id) == { row \in Rows(tables, ReactionTable(c)) : row.parent = id }

LastCall == calls[Len(calls)]

\* C19 (parent and reactions commit as one unit): in the committed
\* database a listed issue or comment with a nonzero reaction count is
\* present exactly if every reaction of its reactions listing is, each
\* keyed to it; and when a run ends, by a failure or a kill, in a record's
\* transaction after a request for its reactions, neither that record nor
\* any reaction of it is committed.
C19_ParentAndReactionsTogether ==
    \A c \in {"issues", "comments"} : \A id \in ListedIds(remote, c) :
        Entry(remote, c, id).reactions.total_count # 0 =>
            /\ Exists(db, c, id)
                  <=> (\A rid \in ListedReactions(remote, c, id) :
                          \E row \in ReactionsOf(db, c, id) : row.key = rid)
            /\ ReactionsOf(db, c, id) # {} => Exists(db, c, id)
            /\ (/\ pc = "aborted"
                /\ body = RecordBody(c, id)
                /\ calls # <<>>
                /\ LastCall.kind = "reactions" /\ LastCall.coll = c /\ LastCall.id = id)
                  => (~Exists(db, c, id) /\ ReactionsOf(db, c, id) = {})

\* A run failed on the second page of a record's reactions, after it had
\* inserted the record and the reaction of the first page; none of them is
\* committed.
C19_Witness ==
    /\ pc = "aborted"
    /\ failure \notin {"none", "killed"}
    /\ calls # <<>>
    /\ LastCall.kind = "reactions"
    /\ LastCall.url.query # ""
    /\ ~Exists(db, LastCall.coll, LastCall.id)
    /\ ReactionsOf(db, LastCall.coll, LastCall.id) = {}
    /\ \E a \in inserts : a.table = ReactionTable(LastCall.coll)

\* C20 (credentials stay on the API origin): every request of the
\* authenticated session (listing pages, record URLs, reactions URLs) goes
\* to the scheme and host of BASE_URL.
C20_AuthenticatedRequestsOnApiOrigin ==
    \A i \in DOMAIN calls :
        calls[i].kind # "file" => url_origin(calls[i].url) = url_origin(BASE_URL)

====
